---- MODULE Spec2Model ----
(***************************************************************************)
(* Model of main.py: the HEIC -> PNG batch converter.                      *)
(*                                                                         *)
(* A file name is the sequence of its dot-separated parts, "a.heic" is     *)
(* <<"a", "heic">> and ".heic" is <<"", "heic">>.  A text (a message, a    *)
(* captured output stream) is the sequence of its fragments, the empty     *)
(* string is <<>>.  A directory maps every name to what it holds there.    *)
(***************************************************************************)
EXTENDS Integers, Sequences, FiniteSets, TLC

VARIABLES
    kind,        \* file system: path -> "missing" | "file" | "dir"
    entries,     \* file system: directory path -> name -> Content
    sipsOnPath,  \* environment: shutil.which("sips") would find the tool
    codecs,      \* environment: the importable packages among Packages
    args,        \* the arguments convert_heic_to_png is called with
    pc,          \* "idle" | "loop" | "returned" | "raised"
    raised,      \* the exception that left convert_heic_to_png, or NoExc
    in_dir,      \* local of convert_heic_to_png
    out_dir,     \* local of convert_heic_to_png
    use_sips,    \* local of convert_heic_to_png
    converted,   \* local of convert_heic_to_png
    errors,      \* local of convert_heic_to_png: sequence of <<name, msg>>
    todo,        \* names directory.iterdir() has still to yield
    status,      \* history: name -> per-file state in the current run
    calls,       \* history: name -> the backends invoked for it, in order
    before,      \* history: the input directory as the current run found it
    prev         \* history: summary of the previous completed call

vars == <<kind, entries, sipsOnPath, codecs, args, pc, raised, in_dir,
          out_dir, use_sips, converted, errors, todo, status, calls, before,
          prev>>

-----------------------------------------------------------------------------
(* Bounds *)

MaxFiles == 3

(* Program constant *)

SUBPROCESS_TIMEOUT == 60

-----------------------------------------------------------------------------
(* The universe the inputs are drawn from *)

NoneArg == "None"

NoName == <<>>

Paths == {"data", "photos", "out"}

Kinds == {"missing", "file", "dir"}

SourceNames ==
    { <<"a", "heic">>, <<"b", "HEIC">>, <<"c", "jpg">>,
      <<"photo", "Heic">>, <<"e", "HEIC">> }

\* e.HEIC is a subdirectory wherever it occurs, every other name a file
SubdirNames == { <<"e", "HEIC">> }

Packages == {"PIL", "pillow_heif", "pyheif"}

Absent == [k |-> "absent", src |-> NoName]

Subdir == [k |-> "subdir", src |-> NoName]

Orig == [k |-> "orig", src |-> NoName]

PngOf(src) == [k |-> "png", src |-> src]

-----------------------------------------------------------------------------
(* pathlib: PurePath.suffix, PurePath.stem and the destination name *)

Suffix(name) ==
    IF /\ Len(name) >= 2
       /\ name[Len(name)] # ""
       /\ (Len(name) >= 3 \/ name[1] # "")
    THEN "." \o name[Len(name)]
    ELSE ""

Stem(name) ==
    IF Suffix(name) = "" THEN name ELSE SubSeq(name, 1, Len(name) - 1)

DstName(src) == Append(Stem(src), "png")

AllNames == SourceNames \cup { DstName(n) : n \in SourceNames }

EmptyDir == [n \in AllNames |-> Absent]

Exists(dir, name) == entries[dir][name].k # "absent"

IsFile(dir, name) == entries[dir][name].k \in {"orig", "png"}

Listing(dir) == { n \in AllNames : Exists(dir, n) }

-----------------------------------------------------------------------------
(* Texts *)

Whitespace == {" ", "\n"}

RECURSIVE LStrip(_)
LStrip(t) ==
    IF t # <<>> /\ Head(t) \in Whitespace THEN LStrip(Tail(t)) ELSE t

RECURSIVE RStrip(_)
RStrip(t) ==
    IF t # <<>> /\ t[Len(t)] \in Whitespace
    THEN RStrip(SubSeq(t, 1, Len(t) - 1))
    ELSE t

\* str.strip()
Strip(t) == RStrip(LStrip(t))

\* Python's `a or b` on strings
OrElse(a, b) == IF a # <<>> THEN a ELSE b

InstallHint ==
    "Pillow HEIC support not available. Install 'pillow-heif' or 'pyheif'. "

\* what the tool may leave on its standard error and standard output
StderrTexts == { <<"\n">>, <<"Error 4: no such image", "\n">> }

StdoutTexts == { <<" ", "Warning: not a valid file">> }

-----------------------------------------------------------------------------
(* Exceptions and conversion results *)

NoExc == "NoExc"

Result(ok, msg) == [ok |-> ok, msg |-> msg, exc |-> NoExc]

Raises(exc) == [ok |-> FALSE, msg |-> <<>>, exc |-> exc]

-----------------------------------------------------------------------------
(* _has_sips and the two backends *)

_has_sips == sipsOnPath

\* What subprocess.run can do: the tool cannot be started when it is not on
\* the search path; otherwise it exits with a code or outlives the timeout.
SipsOutcomes ==
    IF ~sipsOnPath
    THEN { [how |-> "oserror", returncode |-> 0, stderr |-> <<>>, stdout |-> <<>>] }
    ELSE { [how |-> "exit", returncode |-> 0, stderr |-> <<>>, stdout |-> <<>>],
           [how |-> "timeout", returncode |-> 0, stderr |-> <<>>, stdout |-> <<>>] }
         \cup [how : {"exit"}, returncode : {1}, stderr : StderrTexts, stdout : StdoutTexts]

\* as _convert_with_sips without `except subprocess.TimeoutExpired`
_convert_with_sips_NoCatch(o) ==
    IF o.how = "exit"
    THEN IF o.returncode = 0
         THEN Result(TRUE, <<>>)
         ELSE Result(FALSE, OrElse(Strip(o.stderr), Strip(o.stdout)))
    ELSE IF o.how = "timeout"
    THEN Raises("TimeoutExpired")
    ELSE Result(FALSE, <<"[Errno 2] No such file or directory: 'sips'">>)

_convert_with_sips(o) ==
    IF o.how = "exit"
    THEN IF o.returncode = 0
         THEN Result(TRUE, <<>>)
         ELSE Result(FALSE, OrElse(Strip(o.stderr), Strip(o.stdout)))
    ELSE IF o.how = "timeout"
    THEN Result(FALSE, <<"Conversion timed out after ",
                         ToString(SUBPROCESS_TIMEOUT), " seconds">>)
    ELSE Result(FALSE, <<"[Errno 2] No such file or directory: 'sips'">>)

\* Whether decoding the source and saving the PNG goes through
PillowOutcomes == {"saved", "raises"}

\* as _convert_with_pillow with the inner handler returning str(e2) alone
_convert_with_pillow_NoHint(installed, o) ==
    IF "PIL" \notin installed
    THEN Result(FALSE, <<"No module named 'PIL'">>)
    ELSE IF "pillow_heif" \in installed
    THEN IF o = "saved"
         THEN Result(TRUE, <<>>)
         ELSE Result(FALSE, <<"cannot identify image file">>)
    ELSE IF "pyheif" \in installed
    THEN IF o = "saved"
         THEN Result(TRUE, <<>>)
         ELSE Result(FALSE, <<"Invalid input: No 'ftyp' box">>)
    ELSE Result(FALSE, <<"No module named 'pyheif'">>)

_convert_with_pillow(installed, o) ==
    IF "PIL" \notin installed
    THEN Result(FALSE, <<"No module named 'PIL'">>)
    ELSE IF "pillow_heif" \in installed
    THEN IF o = "saved"
         THEN Result(TRUE, <<>>)
         ELSE Result(FALSE, <<"cannot identify image file">>)
    ELSE IF "pyheif" \in installed
    THEN IF o = "saved"
         THEN Result(TRUE, <<>>)
         ELSE Result(FALSE, <<InstallHint, "Details: ", "Invalid input: No 'ftyp' box">>)
    ELSE Result(FALSE, <<InstallHint, "Details: ", "No module named 'pyheif'">>)

-----------------------------------------------------------------------------
(* iter_heic_files *)

\* as suffixes with the comparison made case-insensitive
suffixes_AnyCase == {".heic", ".HEIC", ".Heic"}

suffixes == {".heic", ".HEIC"}

iter_heic_files(dir) ==
    { p \in Listing(dir) : IsFile(dir, p) /\ Suffix(p) \in suffixes }

-----------------------------------------------------------------------------
(* convert_heic_to_png *)

ResolveIn(input_dir) == IF input_dir # NoneArg THEN input_dir ELSE "data"

ResolveOut(output_dir, resolved_in) ==
    IF output_dir # NoneArg THEN output_dir ELSE resolved_in

\* as Validate with the existence test left out
Validate_IsDirOnly(k) == IF k # "dir" THEN "NotADirectoryError" ELSE NoExc

Validate(k) ==
    IF k = "missing" THEN "FileNotFoundError"
    ELSE IF k # "dir" THEN "NotADirectoryError"
    ELSE NoExc

\* Path.mkdir(parents=True, exist_ok=True)
Mkdir(k) == IF k = "file" THEN "FileExistsError" ELSE NoExc

\* as ShouldSkip with the overwrite flag read the wrong way round
ShouldSkip_Inverted(dstExists, overwrite) == dstExists /\ overwrite

\* as ShouldSkip without the overwrite flag
ShouldSkip_IgnoreOverwrite(dstExists, overwrite) == dstExists

\* as ShouldSkip without the existence test
ShouldSkip_Never(dstExists, overwrite) == FALSE

ShouldSkip(dstExists, overwrite) == dstExists /\ ~overwrite

\* as BackendFor with _has_sips() asked again for every file
BackendFor_Requery(selected, onPathNow) == IF onPathNow THEN "sips" ELSE "pillow"

\* `if use_sips:` reads the local set before the loop
BackendFor(selected, onPathNow) == IF selected THEN "sips" ELSE "pillow"

\* as AfterYield with a generator that starts over
AfterYield_Keep(rest, src) == rest

\* the generator never yields a path twice
AfterYield(rest, src) == rest \ {src}

\* as Tally with the count incremented outside `if ok:`
Tally_Always(count, ok) == count + 1

Tally(count, ok) == IF ok THEN count + 1 ELSE count

Report(errs, name, r) == IF r.ok THEN errs ELSE Append(errs, <<name, r.msg>>)

Callable == pc \in {"idle", "returned", "raised"}

Summary == [outcome |-> pc, clean |-> errors = <<>>]

Locals(i, o) ==
    /\ in_dir' = i
    /\ out_dir' = o
    /\ converted' = 0
    /\ errors' = <<>>
    /\ prev' = Summary
    /\ calls' = [n \in AllNames |-> <<>>]

RaiseValidation ==
    /\ Callable
    /\ LET i == ResolveIn(args.input_dir)
           o == ResolveOut(args.output_dir, i)
       IN /\ Validate(kind[i]) # NoExc
          /\ Locals(i, o)
          /\ pc' = "raised"
          /\ raised' = Validate(kind[i])
          /\ use_sips' = FALSE
          /\ todo' = {}
          /\ status' = [n \in AllNames |-> "none"]
          /\ before' = [dir |-> EmptyDir, sips |-> FALSE]
          /\ UNCHANGED <<kind, entries, sipsOnPath, codecs, args>>

RaiseMkdir ==
    /\ Callable
    /\ LET i == ResolveIn(args.input_dir)
           o == ResolveOut(args.output_dir, i)
       IN /\ Validate(kind[i]) = NoExc
          /\ Mkdir(kind[o]) # NoExc
          /\ Locals(i, o)
          /\ pc' = "raised"
          /\ raised' = Mkdir(kind[o])
          /\ use_sips' = FALSE
          /\ todo' = {}
          /\ status' = [n \in AllNames |-> "none"]
          /\ before' = [dir |-> EmptyDir, sips |-> FALSE]
          /\ UNCHANGED <<kind, entries, sipsOnPath, codecs, args>>

Enter ==
    /\ Callable
    /\ LET i == ResolveIn(args.input_dir)
           o == ResolveOut(args.output_dir, i)
       IN /\ Validate(kind[i]) = NoExc
          /\ Mkdir(kind[o]) = NoExc
          /\ Locals(i, o)
          /\ kind' = [kind EXCEPT ![o] = "dir"]
          /\ pc' = "loop"
          /\ raised' = NoExc
          /\ use_sips' = _has_sips
          /\ todo' = iter_heic_files(i)
          /\ status' = [n \in AllNames |->
                          IF n \in iter_heic_files(i) THEN "pending" ELSE "none"]
          /\ before' = [dir |-> entries[i], sips |-> sipsOnPath]
          /\ UNCHANGED <<entries, sipsOnPath, codecs, args>>

Skip ==
    /\ pc = "loop"
    /\ \E src \in todo :
          /\ ShouldSkip(Exists(out_dir, DstName(src)), args.overwrite)
          /\ todo' = AfterYield(todo, src)
          /\ status' = [status EXCEPT ![src] = "skipped"]
    /\ UNCHANGED <<kind, entries, sipsOnPath, codecs, args, pc,
                   raised, in_dir, out_dir, use_sips, converted, errors,
                   calls, before, prev>>

\* lines 150-155 after a backend returned r (or let an exception through);
\* a backend that reports success has written dst, one that reports failure
\* is taken to have left the output directory alone
Record(src, backend, r) ==
    /\ todo' = AfterYield(todo, src)
    /\ calls' = [calls EXCEPT ![src] = Append(@, backend)]
    /\ IF r.exc # NoExc
       THEN /\ pc' = "raised"
            /\ raised' = r.exc
            /\ UNCHANGED <<converted, errors, entries, status>>
       ELSE /\ UNCHANGED <<pc, raised>>
            /\ converted' = Tally(converted, r.ok)
            /\ errors' = Report(errors, src, r)
            /\ status' = [status EXCEPT ![src] = IF r.ok THEN "converted" ELSE "failed"]
            /\ entries' = IF r.ok
                          THEN [entries EXCEPT ![out_dir][DstName(src)] = PngOf(src)]
                          ELSE entries
    /\ UNCHANGED <<kind, sipsOnPath, codecs, args, in_dir,
                   out_dir, use_sips, before, prev>>

ConvertSips ==
    /\ pc = "loop"
    /\ BackendFor(use_sips, sipsOnPath) = "sips"
    /\ \E src \in todo, o \in SipsOutcomes :
          /\ ~ShouldSkip(Exists(out_dir, DstName(src)), args.overwrite)
          /\ Record(src, "sips", _convert_with_sips(o))

ConvertPillow ==
    /\ pc = "loop"
    /\ BackendFor(use_sips, sipsOnPath) = "pillow"
    /\ \E src \in todo, o \in PillowOutcomes :
          /\ ~ShouldSkip(Exists(out_dir, DstName(src)), args.overwrite)
          /\ Record(src, "pillow", _convert_with_pillow(codecs, o))

Return ==
    /\ pc = "loop"
    /\ todo = {}
    /\ pc' = "returned"
    /\ UNCHANGED <<kind, entries, sipsOnPath, codecs, args, raised,
                   in_dir, out_dir, use_sips, converted, errors, todo,
                   status, calls, before, prev>>

\* the tool appears on, or disappears from, the search path
EnvChange ==
    /\ sipsOnPath' = ~sipsOnPath
    /\ UNCHANGED <<kind, entries, codecs, args, pc, raised, in_dir, out_dir,
                   use_sips, converted, errors, todo, status, calls,
                   before, prev>>

-----------------------------------------------------------------------------
(* Initial states: a file system, an environment and the call's arguments *)

Listings == { l \in SUBSET SourceNames : Cardinality(l) <= MaxFiles }

DirOf(l) ==
    [n \in AllNames |->
        IF n \notin l THEN Absent
        ELSE IF n \in SubdirNames THEN Subdir ELSE Orig]

Init ==
    /\ args \in [input_dir : {NoneArg, "photos"}, output_dir : {NoneArg, "out"},
                  overwrite : BOOLEAN]
    /\ kind \in [Paths -> Kinds]
    /\ \A p \in {"data", "photos"} : p # ResolveIn(args.input_dir) => kind[p] = "missing"
    /\ args.output_dir = NoneArg => kind["out"] = "missing"
    /\ \E l \in Listings, o \in SUBSET { <<"a", "png">> } :
          /\ kind[ResolveIn(args.input_dir)] # "dir" => l = {}
          /\ kind["out"] = "dir" <=> o # {}
          /\ entries = [p \in Paths |->
                          IF p = ResolveIn(args.input_dir) THEN DirOf(l)
                          ELSE IF p = "out" THEN DirOf(o)
                          ELSE EmptyDir]
    /\ sipsOnPath \in BOOLEAN
    /\ codecs \in SUBSET Packages
    /\ pc = "idle"
    /\ raised = NoExc
    /\ in_dir = ResolveIn(args.input_dir)
    /\ out_dir = ResolveOut(args.output_dir, in_dir)
    /\ use_sips = FALSE
    /\ converted = 0
    /\ errors = <<>>
    /\ todo = {}
    /\ status = [n \in AllNames |-> "none"]
    /\ calls = [n \in AllNames |-> <<>>]
    /\ before = [dir |-> EmptyDir, sips |-> FALSE]
    /\ prev = [outcome |-> "idle", clean |-> TRUE]

Next ==
    \/ RaiseValidation
    \/ RaiseMkdir
    \/ Enter
    \/ Skip
    \/ ConvertSips
    \/ ConvertPillow
    \/ Return
    \/ EnvChange

Spec == Init /\ [][Next]_vars

\* The initial states the liveness property is checked from: the explicit
\* input directory, and an environment in which the fallback library can
\* convert or cannot even be imported.
LiveInit ==
    /\ Init
    /\ args.input_dir = "photos"
    /\ codecs \in { {}, {"PIL", "pillow_heif"} }

\* The interpreter runs a started call on: each loop step and the return
\* happen once they can.  When the call is made, and what happens to the
\* search path, is up to the caller and the environment.
RunStep == Skip \/ ConvertSips \/ ConvertPillow \/ Return

LiveSpec == LiveInit /\ [][Next]_vars /\ WF_vars(RunStep)

-----------------------------------------------------------------------------
(* Vocabulary of the properties *)

InLoopOrReturned == pc \in {"loop", "returned"}

Processed(n) == status[n] \in {"skipped", "converted", "failed"}

\* a step of the running call that takes src from the generator
Takes(src) == pc = "loop" /\ src \in todo /\ src \notin todo'

Mentions(msg, fragment) == \E i \in DOMAIN msg : msg[i] = fragment

ErrorOf(n) == { errors[i][2] : i \in { j \in DOMAIN errors : errors[j][1] = n } }

\* the regular files of the directory the run found whose name ends in
\* exactly ".heic" or ".HEIC"
Matching ==
    { n \in AllNames : /\ before.dir[n].k \in {"orig", "png"}
                       /\ Len(n) >= 2
                       /\ n[1] # ""
                       /\ n[Len(n)] \in {"heic", "HEIC"} }

Defaults == args.output_dir = NoneArg /\ ~args.overwrite

Scenario == { <<"a", "heic">>, <<"b", "HEIC">>, <<"c", "jpg">> }

Found == { n \in AllNames : before.dir[n].k # "absent" }

-----------------------------------------------------------------------------
(* C1: a call whose input path does not exist ends in FileNotFoundError, a
   call whose input path exists but is no directory ends in
   NotADirectoryError, and neither returns a count. *)
C1_InputValidation ==
    pc # "idle" =>
        /\ kind[ResolveIn(args.input_dir)] = "missing"
              => pc = "raised" /\ raised = "FileNotFoundError"
        /\ kind[ResolveIn(args.input_dir)] = "file"
              => pc = "raised" /\ raised = "NotADirectoryError"

C1_Witness ==
    /\ pc = "raised"
    /\ raised = "NotADirectoryError"
    /\ kind[in_dir] = "file"

(* C2: a step that takes a file whose destination exists while overwrite is
   false skips it: no backend is invoked, the count and the error list stay
   as they are. *)
C2_SkipExisting ==
    [][ \A src \in AllNames :
          (Takes(src) /\ Exists(out_dir, DstName(src)) /\ ~args.overwrite)
             => /\ calls' = calls
                /\ converted' = converted
                /\ errors' = errors
                /\ entries' = entries
                /\ status'[src] = "skipped" ]_vars

C2_Witness ==
    /\ pc = "returned"
    /\ ~args.overwrite
    /\ \E src \in AllNames : status[src] = "skipped" /\ calls[src] = <<>>

(* C3 as stated: a step that takes a file whose destination exists while
   overwrite is true invokes the selected backend and leaves the
   destination overwritten with the conversion of that file. *)
C3_AlwaysOverwritten ==
    [][ \A src \in AllNames :
          (Takes(src) /\ Exists(out_dir, DstName(src)) /\ args.overwrite)
             => /\ Len(calls'[src]) = Len(calls[src]) + 1
                /\ entries'[out_dir][DstName(src)] = PngOf(src) ]_vars

(* C3 amended: a step that takes a file whose destination exists while
   overwrite is true invokes the selected backend for it; when the backend
   reports success the destination holds the conversion of that file and
   the file is counted, and when it reports failure the file is appended
   to the error list. *)
C3_OverwriteReconverts ==
    [][ \A src \in AllNames :
          (Takes(src) /\ Exists(out_dir, DstName(src)) /\ args.overwrite)
             => /\ calls'[src] = Append(calls[src], IF use_sips THEN "sips" ELSE "pillow")
                /\ status'[src] \in {"converted", "failed"}
                /\ status'[src] = "converted"
                      => /\ entries'[out_dir][DstName(src)] = PngOf(src)
                         /\ converted' = converted + 1
                /\ status'[src] = "failed"
                      => /\ converted' = converted
                         /\ Len(errors') = Len(errors) + 1
                         /\ errors'[Len(errors')][1] = src ]_vars

C3_Witness ==
    /\ args.overwrite
    /\ out_dir = in_dir
    /\ \E src \in AllNames :
          /\ status[src] = "converted"
          /\ before.dir[DstName(src)].k # "absent"
          /\ entries[out_dir][DstName(src)] = PngOf(src)

(* C4 as stated: a call that follows a returned call, with overwrite false,
   returns a converted count of 0. *)
C4_SecondRunZero ==
    (pc = "returned" /\ prev.outcome = "returned" /\ ~args.overwrite)
        => converted = 0

(* C4 amended: a call that follows a returned call in which no conversion
   failed, with overwrite false, returns a converted count of 0 and invokes
   no backend. *)
C4_Idempotent ==
    (pc = "returned" /\ prev.outcome = "returned" /\ prev.clean /\ ~args.overwrite)
        => /\ converted = 0
           /\ \A n \in AllNames : calls[n] = <<>>

C4_Witness ==
    /\ pc = "returned"
    /\ prev.outcome = "returned"
    /\ prev.clean
    /\ ~args.overwrite
    /\ converted = 0
    /\ \E n \in AllNames :
          status[n] = "skipped" /\ entries[out_dir][DstName(n)] = PngOf(n)

C6_RunSummary ==
    InLoopOrReturned =>
        /\ converted =
              Cardinality({ n \in AllNames : calls[n] # <<>> /\ status[n] = "converted" })
        /\ Len(errors) =
              Cardinality({ n \in AllNames : calls[n] # <<>> /\ status[n] = "failed" })
        /\ \A n \in AllNames :
              /\ status[n] = "failed" <=> ErrorOf(n) # {}
              /\ status[n] = "skipped" => calls[n] = <<>>
              /\ status[n] \in {"converted", "failed"} => calls[n] # <<>>

C6_Witness ==
    /\ pc = "returned"
    /\ converted = 1
    /\ Len(errors) = 1
    /\ \E a, b \in AllNames :
          /\ status[a] = "converted"
          /\ status[b] = "failed"
          /\ errors[1][1] = b

(* C7 as stated: when the native tool was unavailable at selection and
   neither pillow_heif nor pyheif is installed, every file that is not
   skipped fails with a message that holds the install hint, and the count
   is 0. *)
C7_HintWheneverNoCodec ==
    (InLoopOrReturned /\ ~before.sips /\ codecs \cap {"pillow_heif", "pyheif"} = {})
        => /\ converted = 0
           /\ \A n \in AllNames :
                 (Processed(n) /\ status[n] # "skipped")
                    => /\ ErrorOf(n) # {}
                       /\ \A m \in ErrorOf(n) : Mentions(m, InstallHint)

(* C7 amended: when the native tool was unavailable at selection, PIL is
   importable and neither pillow_heif nor pyheif is installed, every file
   that is not skipped fails with a message that holds the install hint;
   when PIL is not importable either, it fails with the import error's text;
   in both cases the count is 0. *)
C7_InstallHint ==
    (InLoopOrReturned /\ ~before.sips /\ codecs \cap {"pillow_heif", "pyheif"} = {})
        => /\ converted = 0
           /\ \A n \in AllNames :
                 (Processed(n) /\ status[n] # "skipped")
                    => /\ status[n] = "failed"
                       /\ ErrorOf(n) # {}
                       /\ \A m \in ErrorOf(n) :
                             IF "PIL" \in codecs
                             THEN Mentions(m, InstallHint)
                             ELSE m = <<"No module named 'PIL'">>

C7_Witness ==
    /\ pc = "returned"
    /\ ~before.sips
    /\ codecs = {"PIL"}
    /\ converted = 0
    /\ Len(errors) >= 2
    /\ \A i \in DOMAIN errors : Mentions(errors[i][2], InstallHint)

(* C8 as stated: a call with the defaults returns the number of .heic and
   .HEIC files of the input directory. *)
C8_CountsEveryMatch ==
    (pc = "returned" /\ Defaults) => converted = Cardinality(Matching)

(* C8 amended: a call with the defaults returns the number of .heic and
   .HEIC regular files that were not skipped and whose conversion the
   backend reported successful (2 for a.heic, b.HEIC, c.jpg when both
   conversions succeed); each of those has <stem>.png in the output
   directory; no backend is invoked for any other entry, photo.Heic
   included; every entry the run found is left as it was, and every PNG the
   run produced is the conversion of a matching file. *)
C8_DefaultRun ==
    (pc = "returned" /\ Defaults) =>
        /\ converted =
              Cardinality({ n \in Matching : status[n] \notin {"skipped", "failed"} })
        /\ \A n \in Matching :
              /\ Processed(n)
              /\ status[n] = "converted" => entries[out_dir][DstName(n)] = PngOf(n)
              /\ status[n] = "skipped" => Exists(out_dir, DstName(n))
        /\ \A n \in AllNames \ Matching : calls[n] = <<>> /\ status[n] = "none"
        /\ \A n \in Found : entries[in_dir][n] = before.dir[n]
        /\ \A m \in AllNames :
              entries[out_dir][m] # before.dir[m]
                 => \E n \in Matching :
                       m = DstName(n) /\ entries[out_dir][m] = PngOf(n)
        /\ (Found = Scenario /\ errors = <<>>)
              => /\ converted = 2
                 /\ entries[out_dir][<<"a", "png">>] = PngOf(<<"a", "heic">>)
                 /\ entries[out_dir][<<"b", "png">>] = PngOf(<<"b", "HEIC">>)
                 /\ entries[out_dir][<<"c", "jpg">>] = Orig
                 /\ ~Exists(out_dir, <<"c", "png">>)

C8_Witness ==
    /\ pc = "returned"
    /\ Defaults
    /\ Found = Scenario
    /\ converted = 2
    /\ Exists(out_dir, <<"a", "png">>)
    /\ Exists(out_dir, <<"b", "png">>)

(* C9: every backend invocation of a call uses the backend selected when
   the call began (the native tool if it was on the search path then, the
   fallback library otherwise), whatever happens to the search path later,
   and no file is tried with the other backend after a failure. *)
C9_BackendSelectedOnce ==
    InLoopOrReturned =>
        \A n \in AllNames : \A i \in DOMAIN calls[n] :
            calls[n][i] = IF before.sips THEN "sips" ELSE "pillow"

C9_Witness ==
    /\ pc = "returned"
    /\ before.sips
    /\ ~sipsOnPath
    /\ \E n \in AllNames :
          /\ status[n] = "failed"
          /\ calls[n] = <<"sips">>
          /\ <<"[Errno 2] No such file or directory: 'sips'">> \in ErrorOf(n)

(* C10: within a call every enumerated file goes from pending to exactly
   one of skipped, converted or failed and stays there, the backend is
   invoked at most once per file, and at the return no file is pending. *)
C10_PerFileStateMachine ==
    /\ [][ pc = "loop" =>
             \A n \in AllNames :
                /\ status[n] = "none" => status'[n] = "none"
                /\ status[n] = "pending"
                      => status'[n] \in {"pending", "skipped", "converted", "failed"}
                /\ Processed(n) => status'[n] = status[n] /\ calls'[n] = calls[n]
                /\ Len(calls'[n]) <= 1
                /\ status'[n] = "skipped" => calls'[n] = <<>> ]_vars
    /\ [](pc = "returned" => \A n \in AllNames : status[n] # "pending")

C10_Witness ==
    /\ pc = "returned"
    /\ \E a, b \in AllNames :
          /\ status[a] \in {"skipped", "converted"}
          /\ status[b] = "failed"
          /\ Len(calls[b]) = 1

====
